---- MODULE Spec2Model ----
(***************************************************************************)
(* UIU University Management System (src/uiu_ums.c): the fixed-record      *)
(* binary stores, the console input they are fed from, and the admin /     *)
(* faculty / student menus that drive them.                                *)
(*                                                                         *)
(* Representation.  A character is its ASCII code.  A char array of        *)
(* capacity N is held as the sequence of the characters that precede the   *)
(* first NUL of the slot; a sequence of length N is a slot with no         *)
(* terminator.  (Every write the program makes to a slot - fgets into a    *)
(* zeroed struct, strncpy, which pads with NULs - leaves only NULs after   *)
(* the first NUL, so the sequence determines the slot.)  A file is the     *)
(* sequence of its fixed-size records plus the fact of its existence; all  *)
(* writes are whole records at multiples of the record size.  Credits are  *)
(* kept in tenths, grade points in hundredths.                             *)
(***************************************************************************)
EXTENDS Integers, Sequences, FiniteSets, TLC

VARIABLES students, faculty, courses, enrollments, users, mode, session, stdin, last, sfile, sres

vars == <<students, faculty, courses, enrollments, users, mode, session, stdin, last, sfile, sres>>

stores == <<students, faculty, courses, enrollments, users>>

(* ======== CONFIG ======== *)
MAX_NAME == 64
MAX_DEPT == 32
MAX_EMAIL == 64
MAX_ID == 16
MAX_CODE == 16
MAX_TITLE == 64
MAX_TERM == 16
MAX_USER == 32
MAX_PASS == 32
GRADE_CAP == 3
LINE_CAP == 64
EDIT_BUF_CAP == 128

ROLE_ADMIN == 1
ROLE_FACULTY == 2
ROLE_STUDENT == 3

NL == 10

(* ======== BOUNDS ======== *)
MaxStudents == 3
MaxFaculty == 3
MaxCourses == 3
MaxEnrollments == 4
MaxStoreLen == 3

\* the most Enrollment records in the file the reports are run on
MaxReportEnr == 3

(* ======== STRING LITERALS ======== *)
Str_S1_id == <<48, 50, 49, 50, 52, 49, 48, 48, 48, 51, 52>>  \* "02124100034"
Str_S1_name == <<83, 97, 98, 98, 105, 114, 32, 65, 104, 109, 101, 100>>  \* "Sabbir Ahmed"
Str_S1_email == <<97, 108, 108, 101, 120, 115, 97, 98, 98, 105, 114, 49, 49, 55, 64, 103, 109, 97, 105, 108, 46, 99, 111, 109>>  \* "allexsabbir117@gmail.com"
Str_S2_id == <<48, 50, 49, 50, 52, 49, 48, 48, 48, 48, 49>>  \* "02124100001"
Str_S2_name == <<65, 102, 115, 97, 110, 97, 32, 77, 105, 109>>  \* "Afsana Mim"
Str_S2_email == <<109, 105, 109, 64, 101, 120, 97, 109, 112, 108, 101, 46, 99, 111, 109>>  \* "mim@example.com"
Str_EEE == <<69, 69, 69>>  \* "EEE"
Str_CSE == <<67, 83, 69>>  \* "CSE"
Str_F1_id == <<70, 65, 67, 45, 69, 69, 69, 45, 48, 48, 49>>  \* "FAC-EEE-001"
Str_F1_name == <<68, 114, 46, 32, 82, 101, 122, 119, 97, 110, 32, 75, 104, 97, 110>>  \* "Dr. Rezwan Khan"
Str_F1_email == <<114, 101, 122, 119, 97, 110, 46, 107, 104, 97, 110, 64, 117, 105, 117, 46, 97, 99, 46, 98, 100>>  \* "rezwan.khan@uiu.ac.bd"
Str_F2_id == <<70, 65, 67, 45, 67, 83, 69, 45, 48, 48, 50>>  \* "FAC-CSE-002"
Str_F2_name == <<68, 114, 46, 32, 74, 111, 104, 110, 32, 68, 111, 101>>  \* "Dr. John Doe"
Str_F2_email == <<106, 111, 104, 110, 46, 100, 111, 101, 64, 117, 105, 117, 46, 97, 99, 46, 98, 100>>  \* "john.doe@uiu.ac.bd"
Str_C1_code == <<69, 69, 69, 45, 50, 49, 48, 49>>  \* "EEE-2101"
Str_C1_title == <<67, 105, 114, 99, 117, 105, 116, 115, 32, 73>>  \* "Circuits I"
Str_C2_code == <<67, 83, 69, 45, 49, 49, 48, 49>>  \* "CSE-1101"
Str_C2_title == <<73, 110, 116, 114, 111, 32, 116, 111, 32, 80, 114, 111, 103, 114, 97, 109, 109, 105, 110, 103>>  \* "Intro to Programming"
Str_Fall2025 == <<70, 97, 108, 108, 45, 50, 48, 50, 53>>  \* "Fall-2025"
Str_G_A == <<65>>  \* "A"
Str_G_Am == <<65, 45>>  \* "A-"
Str_G_Bp == <<66, 43>>  \* "B+"
Str_G_B == <<66>>  \* "B"
Str_G_Bm == <<66, 45>>  \* "B-"
Str_G_Cp == <<67, 43>>  \* "C+"
Str_G_C == <<67>>  \* "C"
Str_G_Cm == <<67, 45>>  \* "C-"
Str_G_D == <<68>>  \* "D"
Str_G_F == <<70>>  \* "F"
Str_G_NA == <<78, 65>>  \* "NA"
Str_U_admin == <<97, 100, 109, 105, 110>>  \* "admin"
Str_U_rezwan == <<114, 101, 122, 119, 97, 110>>  \* "rezwan"
Str_U_john == <<106, 111, 104, 110>>  \* "john"
Str_U_sabbir == <<115, 97, 98, 98, 105, 114>>  \* "sabbir"
Str_U_mim == <<109, 105, 109>>  \* "mim"
Str_P_admin == <<97, 100, 109, 105, 110, 49, 50, 51>>  \* "admin123"
Str_P_teacher == <<116, 101, 97, 99, 104, 101, 114, 49, 50, 51>>  \* "teacher123"
Str_P_student == <<115, 116, 117, 100, 101, 110, 116, 49, 50, 51>>  \* "student123"

Empty == <<>>

\* n copies of the character c
Rep(c, n) == [i \in 1..n |-> c]

\* the decimal digits of a menu choice
Digits(n) == IF n < 10 THEN <<48 + n>> ELSE <<48 + (n \div 10), 48 + (n % 10)>>

Min(a, b) == IF a < b THEN a ELSE b

Take(s, n) == SubSeq(s, 1, Min(Len(s), n))

Drop(s, n) == SubSeq(s, Min(Len(s), n) + 1, Len(s))

(* ======== UTILS ======== *)
SALT == <<85, 42, 17, 195, 126, 144, 4, 209>>

\* bitwise exclusive or of two bytes
RECURSIVE Xor(_, _)
Xor(a, b) == IF a = 0 /\ b = 0 THEN 0 ELSE ((a + b) % 2) + 2 * Xor(a \div 2, b \div 2)

obfuscate(plain) == [k \in 1..MAX_PASS |-> Xor(IF k - 1 < Len(plain) THEN plain[k] ELSE 0, SALT[((k - 1) % 8) + 1])]

verify_pass(obf, try_pass) == obfuscate(try_pass) = obf

trim_newline(s) == IF Len(s) > 0 /\ s[Len(s)] = NL THEN SubSeq(s, 1, Len(s) - 1) ELSE s

toupper(c) == IF c >= 97 /\ c <= 122 THEN c - 32 ELSE c

upper(s) == [i \in 1..Len(s) |-> toupper(s[i])]

strncpy(src, n) == Take(src, n)

(***************************************************************************)
(* The console.  pending is what the terminal has delivered and the        *)
(* program has not read yet; typed is what the user will type, one line    *)
(* at a time, when a read finds pending empty.  A read that finds both     *)
(* empty sees end of file.                                                 *)
(***************************************************************************)
Io(pend, lines) == [pending |-> pend, typed |-> lines]

refill(io) == IF io.pending = <<>> /\ io.typed # <<>> THEN [pending |-> Append(Head(io.typed), NL), typed |-> Tail(io.typed)] ELSE io

\* position of the first newline of p, Len(p) when there is none
FirstNL(p) == IF \E i \in 1..Len(p) : p[i] = NL THEN CHOOSE i \in 1..Len(p) : p[i] = NL /\ \A j \in 1..(i - 1) : p[j] # NL ELSE Len(p)

\* fgets(buf, cap, stdin): at most cap-1 characters, stopping after a newline
fgets(io, cap) ==
  LET r == refill(io)
      n == Min(cap - 1, FirstNL(r.pending))
  IN IF r.pending = <<>> THEN [ok |-> FALSE, buf |-> <<>>, io |-> r]
     ELSE [ok |-> TRUE, buf |-> Take(r.pending, n), io |-> [r EXCEPT !.pending = Drop(r.pending, n)]]

read_line(io, cap) ==
  LET g == fgets(io, cap)
  IN IF g.ok THEN [buf |-> trim_newline(g.buf), io |-> g.io] ELSE [buf |-> <<>>, io |-> g.io]

isspace(c) == c = 32 \/ (c >= 9 /\ c <= 13)

isdigit(c) == c >= 48 /\ c <= 57

\* the value of the leading run of digits of s
RECURSIVE DigitRun(_, _)
DigitRun(s, acc) == IF s = <<>> \/ ~isdigit(Head(s)) THEN acc ELSE DigitRun(Tail(s), 10 * acc + (Head(s) - 48))

RECURSIVE SkipSpace(_)
SkipSpace(s) == IF s # <<>> /\ isspace(Head(s)) THEN SkipSpace(Tail(s)) ELSE s

atoi(s) ==
  LET t == SkipSpace(s)
  IN IF t # <<>> /\ Head(t) = 45 THEN 0 - DigitRun(Tail(t), 0)
     ELSE IF t # <<>> /\ Head(t) = 43 THEN DigitRun(Tail(t), 0)
     ELSE DigitRun(t, 0)

RECURSIVE SkipDigits(_)
SkipDigits(s) == IF s # <<>> /\ isdigit(Head(s)) THEN SkipDigits(Tail(s)) ELSE s

\* atof, in tenths: sign, integer part and the first fractional digit
atof(s) ==
  LET t == SkipSpace(s)
      neg == t # <<>> /\ Head(t) = 45
      u == IF t # <<>> /\ (Head(t) = 45 \/ Head(t) = 43) THEN Tail(t) ELSE t
      rest == SkipDigits(u)
      frac == IF Len(rest) >= 2 /\ rest[1] = 46 /\ isdigit(rest[2]) THEN rest[2] - 48 ELSE 0
      mag == 10 * DigitRun(u, 0) + frac
  IN IF neg THEN 0 - mag ELSE mag

read_int(io) ==
  LET r == read_line(io, LINE_CAP)
  IN [val |-> atoi(r.buf), io |-> r.io]

read_float(io) ==
  LET r == read_line(io, LINE_CAP)
  IN [val |-> atof(r.buf), io |-> r.io]

\* getchar(): one character, or end of file
getchar(io) ==
  LET r == refill(io)
  IN IF r.pending = <<>> THEN r ELSE [r EXCEPT !.pending = Tail(r.pending)]

\* pause_enter(): read through the next newline, then one more character
pause_enter(io) ==
  LET r == refill(io)
  IN getchar([r EXCEPT !.pending = Drop(r.pending, FirstNL(r.pending))])

(* ======== FILE HELPERS ======== *)
NoFile == [exists |-> FALSE, recs |-> <<>>]

NoRec == [none |-> TRUE]

\* the division the other way round
file_count_records_swapped(f) == IF ~f.exists \/ Len(f.recs) = 0 THEN 0 ELSE 1 \div Len(f.recs)

file_count_records(f) == IF ~f.exists THEN 0 ELSE Len(f.recs)

file_read_at(f, index) ==
  IF ~f.exists THEN [ok |-> 0, out |-> NoRec]
  ELSE IF index < 0 THEN [ok |-> 0, out |-> NoRec]
  ELSE IF index < Len(f.recs) THEN [ok |-> 1, out |-> f.recs[index + 1]]
  ELSE [ok |-> 0, out |-> NoRec]

\* opened with OPEN_BIN_WRITE ("wb"): the file is cut to the one record
file_write_at_wb(f, index, rec, zero) ==
  IF ~f.exists THEN [ok |-> 0, file |-> f]
  ELSE IF index < 0 THEN [ok |-> 0, file |-> f]
  ELSE [ok |-> 1, file |-> [f EXCEPT !.recs = [i \in 1..index |-> zero] \o <<rec>>]]

\* seeks to the end of record index instead of its start
file_write_at_next(f, index, rec, zero) ==
  IF ~f.exists THEN [ok |-> 0, file |-> f]
  ELSE IF index < 0 THEN [ok |-> 0, file |-> f]
  ELSE IF index + 1 < Len(f.recs) THEN [ok |-> 1, file |-> [f EXCEPT !.recs[index + 2] = rec]]
  ELSE [ok |-> 1, file |-> [f EXCEPT !.recs = f.recs \o [i \in 1..(index + 1 - Len(f.recs)) |-> zero] \o <<rec>>]]

\* zero is the record a run of recSize NUL bytes decodes to: fseek past the
\* end succeeds, and the write leaves a gap of such records behind it
file_write_at(f, index, rec, zero) ==
  IF ~f.exists THEN [ok |-> 0, file |-> f]
  ELSE IF index < 0 THEN [ok |-> 0, file |-> f]
  ELSE IF index < Len(f.recs) THEN [ok |-> 1, file |-> [f EXCEPT !.recs[index + 1] = rec]]
  ELSE [ok |-> 1, file |-> [f EXCEPT !.recs = f.recs \o [i \in 1..(index - Len(f.recs)) |-> zero] \o <<rec>>]]

\* opened "wb" instead of "ab": the file is cut to the one record
file_append_truncating(f, rec) == [ok |-> 1, file |-> [exists |-> TRUE, recs |-> <<rec>>]]

file_append(f, rec) == [ok |-> 1, file |-> [exists |-> TRUE, recs |-> Append(f.recs, rec)]]

(* ======== RECORDS ======== *)
MkStudent(id, name, dept, batch, email) == [id |-> id, name |-> name, dept |-> dept, batch |-> batch, email |-> email]

MkFaculty(id, name, dept, email) == [id |-> id, name |-> name, dept |-> dept, email |-> email]

MkCourse(code, title, credit, dept, instructorId) == [code |-> code, title |-> title, credit |-> credit, dept |-> dept, instructorId |-> instructorId]

MkEnrollment(studentId, courseCode, term, grade) == [studentId |-> studentId, courseCode |-> courseCode, term |-> term, grade |-> grade]

MkUser(username, role, refId, pass_obf) == [username |-> username, role |-> role, refId |-> refId, pass_obf |-> pass_obf]

MkEnrKey(sid, code, term) == [sid |-> sid, code |-> code, term |-> term]

\* the records that all-zero bytes decode to
ZeroStudent == MkStudent(<<>>, <<>>, <<>>, 0, <<>>)

ZeroCourse == MkCourse(<<>>, <<>>, 0, <<>>, <<>>)

ZeroEnrollment == MkEnrollment(<<>>, <<>>, <<>>, <<>>)

(***************************************************************************)
(* Reading a Student field as a C string.  The fields lie back to back     *)
(* (id 16, name 64, dept 32, int batch, email 64), so a read of a slot     *)
(* that holds no terminator runs on into the bytes that follow it; a read  *)
(* that is still going at the end of email leaves the object.              *)
(***************************************************************************)
\* the four bytes of a 32-bit int, least significant first (two's complement)
IntBytes(v) ==
  LET u == IF v < 0 THEN (v + 2147483647) + 1 ELSE v
      top == IF v < 0 THEN 128 ELSE 0
  IN [k \in 1..4 |-> IF k = 4 THEN (u \div 16777216) + top ELSE (u \div (256 ^ (k - 1))) % 256]

str_email(s) == s.email

str_batch(s) ==
  LET b == IntBytes(s.batch)
      z == IF \E k \in 1..4 : b[k] = 0 THEN (CHOOSE k \in 1..4 : b[k] = 0 /\ \A j \in 1..(k - 1) : b[j] # 0) ELSE 5
  IN IF z = 5 THEN b \o str_email(s) ELSE SubSeq(b, 1, z - 1)

str_dept(s) == IF Len(s.dept) < MAX_DEPT THEN s.dept ELSE s.dept \o str_batch(s)

str_name(s) == IF Len(s.name) < MAX_NAME THEN s.name ELSE s.name \o str_dept(s)

str_id(s) == IF Len(s.id) < MAX_ID THEN s.id ELSE s.id \o str_name(s)

\* what the five conversions of print_student read
print_student(s) == [id |-> str_id(s), name |-> str_name(s), dept |-> str_dept(s), batch |-> s.batch, email |-> str_email(s)]

\* print_student reads beyond the Student object
reads_past_object(s) == Len(s.email) >= MAX_EMAIL

(* ======== PREDICATES ======== *)
pred_student_by_id(rec, key) == str_id(rec) = key

\* compares the wrong field
pred_faculty_by_name(rec, key) == rec.name = key

pred_faculty_by_id(rec, key) == rec.id = key

\* strcmp's result taken for a truth value
pred_course_by_code_nonzero(rec, key) == rec.code # key

pred_course_by_code(rec, key) == rec.code = key

pred_user_by_username(rec, key) == rec.username = key

pred_enr_by_key(rec, key) == rec.studentId = key.sid /\ rec.courseCode = key.code /\ rec.term = key.term

\* a call through the rec_pred function pointer
rec_pred(pred, rec, key) ==
  CASE pred = "pred_student_by_id" -> pred_student_by_id(rec, key)
    [] pred = "pred_faculty_by_id" -> pred_faculty_by_id(rec, key)
    [] pred = "pred_course_by_code" -> pred_course_by_code(rec, key)
    [] pred = "pred_user_by_username" -> pred_user_by_username(rec, key)
    [] pred = "pred_enr_by_key" -> pred_enr_by_key(rec, key)

\* the scan does not stop at a match: the last one wins
file_find_first_last(f, pred, key) ==
  LET n == Len(f.recs)
      scan[idx \in 0..n] == IF idx = 0 THEN -1 ELSE IF rec_pred(pred, f.recs[idx], key) THEN idx - 1 ELSE scan[idx - 1]
      hit == scan[n]
  IN IF ~f.exists THEN [idx |-> -1, out |-> NoRec]
     ELSE IF hit >= 0 THEN [idx |-> hit, out |-> f.recs[hit + 1]]
     ELSE [idx |-> -1, out |-> NoRec]

file_find_first(f, pred, key) ==
  LET n == Len(f.recs)
      scan[idx \in 0..n] == IF idx = n THEN -1 ELSE IF rec_pred(pred, f.recs[idx + 1], key) THEN idx ELSE scan[idx + 1]
      hit == scan[0]
  IN IF ~f.exists THEN [idx |-> -1, out |-> NoRec]
     ELSE IF hit >= 0 THEN [idx |-> hit, out |-> f.recs[hit + 1]]
     ELSE [idx |-> -1, out |-> NoRec]

(* ======== DOMAIN LOGIC ======== *)
\* falls through to 0.00 instead of -1.0
grade_to_points_zero(g) ==
  IF g = Str_G_A THEN 400
  ELSE IF g = Str_G_Am THEN 370
  ELSE IF g = Str_G_Bp THEN 330
  ELSE IF g = Str_G_B THEN 300
  ELSE IF g = Str_G_Bm THEN 270
  ELSE IF g = Str_G_Cp THEN 230
  ELSE IF g = Str_G_C THEN 200
  ELSE IF g = Str_G_Cm THEN 170
  ELSE IF g = Str_G_D THEN 100
  ELSE 0

\* the symbol is compared without regard to case
grade_to_points_nocase(g) ==
  IF upper(g) = Str_G_A THEN 400
  ELSE IF upper(g) = Str_G_Am THEN 370
  ELSE IF upper(g) = Str_G_Bp THEN 330
  ELSE IF upper(g) = Str_G_B THEN 300
  ELSE IF upper(g) = Str_G_Bm THEN 270
  ELSE IF upper(g) = Str_G_Cp THEN 230
  ELSE IF upper(g) = Str_G_C THEN 200
  ELSE IF upper(g) = Str_G_Cm THEN 170
  ELSE IF upper(g) = Str_G_D THEN 100
  ELSE IF upper(g) = Str_G_F THEN 0
  ELSE -100

\* grade points in hundredths; -100 is "invalid"
grade_to_points(g) ==
  IF g = Str_G_A THEN 400
  ELSE IF g = Str_G_Am THEN 370
  ELSE IF g = Str_G_Bp THEN 330
  ELSE IF g = Str_G_B THEN 300
  ELSE IF g = Str_G_Bm THEN 270
  ELSE IF g = Str_G_Cp THEN 230
  ELSE IF g = Str_G_C THEN 200
  ELSE IF g = Str_G_Cm THEN 170
  ELSE IF g = Str_G_D THEN 100
  ELSE IF g = Str_G_F THEN 0
  ELSE -100

(* ======== REPORTS ======== *)
\* Credits are kept in tenths and grade points in hundredths, so a sum of
\* points*credit is in thousandths and points/credits is in hundredths.

\* printf("%.2f", num / den), in hundredths, for den > 0
fmt2(num, den) == (2 * num + den) \div (2 * den)

NoTotals == [rows |-> <<>>, totalCred |-> 0, totalPts |-> 0]

\* the credit of an ungraded course is added to the total
transcript_row_ungraded(acc, e, f) ==
  IF f.idx < 0 THEN acc
  ELSE [rows |-> Append(acc.rows, [code |-> f.out.code, term |-> e.term, credit |-> f.out.credit,
                                   grade |-> e.grade, gp |-> grade_to_points(e.grade)]),
        totalCred |-> acc.totalCred + f.out.credit,
        totalPts |-> IF grade_to_points(e.grade) >= 0 THEN acc.totalPts + grade_to_points(e.grade) * f.out.credit
                     ELSE acc.totalPts]

\* the body of the loop of transcript_for_student for one Enrollment e, where
\* f is what the Course lookup returned
transcript_row(acc, e, f) ==
  IF f.idx < 0 THEN acc
  ELSE IF grade_to_points(e.grade) >= 0
  THEN [rows |-> Append(acc.rows, [code |-> f.out.code, term |-> e.term, credit |-> f.out.credit,
                                   grade |-> e.grade, gp |-> grade_to_points(e.grade)]),
        totalCred |-> acc.totalCred + f.out.credit,
        totalPts |-> acc.totalPts + grade_to_points(e.grade) * f.out.credit]
  ELSE [acc EXCEPT !.rows = Append(acc.rows, [code |-> f.out.code, term |-> e.term, credit |-> f.out.credit,
                                              grade |-> e.grade, gp |-> -100])]

\* what transcript_for_student prints: the lines of the table, the sums, and
\* the last line ("cgpa" with the quotient as printed, or "nograded" with no
\* quotient, -1 here)
transcript_for_student(enr, crs, sid) ==
  LET n == Len(enr.recs)
      loop[i \in 0..n] ==
        IF i = 0 THEN NoTotals
        ELSE CHOOSE r \in {IF e.studentId = sid
                           THEN transcript_row(acc, e, file_find_first(crs, "pred_course_by_code", e.courseCode))
                           ELSE acc : acc \in {loop[i - 1]}, e \in {enr.recs[i]}} : TRUE
  IN IF ~enr.exists
     THEN [head |-> "noenrollments", rows |-> <<>>, totalCred |-> 0, totalPts |-> 0, tail |-> "none", cgpa |-> -1]
     ELSE CHOOSE r \in {[head |-> "transcript", rows |-> t.rows, totalCred |-> t.totalCred, totalPts |-> t.totalPts,
                         tail |-> IF t.totalCred > 0 THEN "cgpa" ELSE "nograded",
                         cgpa |-> IF t.totalCred > 0 THEN fmt2(t.totalPts, t.totalCred) ELSE -1] : t \in {loop[n]}} : TRUE

\* the loop of roster_for_course_term keeps every matching Enrollment
roster_row_unjoined(rows, e, f) ==
  Append(rows, [id |-> e.studentId, name |-> <<>>, grade |-> e.grade])

\* the body of the loop of roster_for_course_term for one matching
\* Enrollment e, where f is what the Student lookup returned
roster_row(rows, e, f) ==
  IF f.idx < 0 THEN rows
  ELSE Append(rows, [id |-> str_id(f.out), name |-> str_name(f.out), grade |-> e.grade])

roster_for_course_term(enr, stud, code, term) ==
  LET n == Len(enr.recs)
      loop[i \in 0..n] ==
        IF i = 0 THEN <<>>
        ELSE CHOOSE r \in {IF e.courseCode = code /\ e.term = term
                           THEN roster_row(rows, e, file_find_first(stud, "pred_student_by_id", e.studentId))
                           ELSE rows : rows \in {loop[i - 1]}, e \in {enr.recs[i]}} : TRUE
  IN IF ~enr.exists
     THEN [head |-> "noenrollments", rows |-> <<>>, count |-> 0]
     ELSE CHOOSE r \in {[head |-> "roster", rows |-> rows, count |-> Len(rows)] : rows \in {loop[n]}} : TRUE

\* the index of the first accumulator of student sid, or -1
acc_find(accs, sid) ==
  LET hits == {i \in 1..Len(accs) : accs[i].sid = sid}
  IN IF hits = {} THEN -1 ELSE (CHOOSE i \in hits : \A k \in hits : i <= k) - 1

\* the body of the first loop of gpa_leaderboard for one Enrollment e of the
\* term, where f is what the Course lookup returned
leaderboard_row(accs, e, f) ==
  IF f.idx < 0 THEN accs
  ELSE IF grade_to_points(e.grade) < 0 THEN accs
  ELSE IF acc_find(accs, e.studentId) < 0
  THEN Append(accs, [sid |-> strncpy(e.studentId, MAX_ID),
                     pts |-> grade_to_points(e.grade) * f.out.credit,
                     cred |-> f.out.credit])
  ELSE [accs EXCEPT ![acc_find(accs, e.studentId) + 1] =
          [sid |-> @.sid, pts |-> @.pts + grade_to_points(e.grade) * f.out.credit, cred |-> @.cred + f.out.credit]]

\* (cred > 0) ? pts / cred : 0, as a fraction with a positive denominator
gpa_of(a) == IF a.cred > 0 THEN [num |-> a.pts, den |-> a.cred] ELSE [num |-> 0, den |-> 1]

\* g2 > g1
gpa_gt(g2, g1) == g2.num * g1.den > g1.num * g2.den

\* the body of the inner loop of the sort: accs[j] and accs[j + 1] of the code
\* are accs[j + 1] and accs[j + 2] here
bubble_swap(accs, j) ==
  IF gpa_gt(gpa_of(accs[j + 2]), gpa_of(accs[j + 1]))
  THEN [accs EXCEPT ![j + 1] = accs[j + 2], ![j + 2] = accs[j + 1]]
  ELSE accs

\* for (j = 0; j + 1 < n; j++)
bubble_pass(accs) ==
  LET n == Len(accs)
      inner[j \in 0..n] ==
        IF j + 1 >= n THEN accs
        ELSE IF j = 0 THEN bubble_swap(accs, 0)
        ELSE CHOOSE r \in {bubble_swap(b, j) : b \in {inner[j - 1]}} : TRUE
  IN IF n < 2 THEN accs ELSE inner[n - 2]

\* for (i = 0; i < n; i++)
bubble_sort(accs) ==
  LET n == Len(accs)
      outer[i \in 0..n] ==
        IF i = 0 THEN accs
        ELSE CHOOSE r \in {bubble_pass(b) : b \in {outer[i - 1]}} : TRUE
  IN outer[n]

\* one printed line of the leaderboard, where f is what the Student lookup returned
leaderboard_line(i, a, f) ==
  [rank |-> i,
   id |-> IF f.idx >= 0 THEN str_id(f.out) ELSE a.sid,
   name |-> IF f.idx >= 0 THEN str_name(f.out) ELSE <<>>,
   gpa |-> IF a.cred > 0 THEN fmt2(a.pts, a.cred) ELSE 0,
   cred |-> a.cred]

\* what gpa_leaderboard builds and prints: the accumulators as they were
\* filled, the accumulators as sorted, and the printed lines
gpa_leaderboard(enr, crs, stud, term) ==
  LET n == Len(enr.recs)
      loop[i \in 0..n] ==
        IF i = 0 THEN <<>>
        ELSE CHOOSE r \in {IF e.term = term
                           THEN leaderboard_row(accs, e, file_find_first(crs, "pred_course_by_code", e.courseCode))
                           ELSE accs : accs \in {loop[i - 1]}, e \in {enr.recs[i]}} : TRUE
  IN IF ~enr.exists
     THEN [head |-> "noenrollments", filled |-> <<>>, accs |-> <<>>, rows |-> <<>>]
     ELSE CHOOSE r \in {[head |-> "leaderboard", filled |-> filled, accs |-> sorted,
                         rows |-> [i \in 1..Len(sorted) |->
                                     leaderboard_line(i, sorted[i], file_find_first(stud, "pred_student_by_id", sorted[i].sid))]]
                        : filled \in {loop[n]}, sorted \in {bubble_sort(loop[n])}} : TRUE

(* ======== CRUD ======== *)
NoUser == [none |-> TRUE]

NoOp == [op |-> "none", rc |-> "none", key |-> <<>>, arg |-> NoRec]

\* a handler returns to its menu: what it did, and the console it leaves behind
Return(op, rc, key, arg, io) ==
  /\ last' = [op |-> op, rc |-> rc, key |-> key, arg |-> arg]
  /\ stdin' = io.pending
  /\ UNCHANGED <<users, mode, session, sfile, sres>>

\* the process dies in the middle of a handler
Die(op, key) ==
  /\ last' = [op |-> op, rc |-> "died", key |-> key, arg |-> NoRec]
  /\ mode' = "boot"
  /\ session' = NoUser
  /\ stdin' = <<>>
  /\ UNCHANGED <<students, faculty, courses, enrollments, users, sfile, sres>>

add_student(io) ==
  \E r1 \in {read_line(io, MAX_ID)} :
    IF file_find_first(students, "pred_student_by_id", r1.buf).idx >= 0
    THEN /\ Return("add_student", "exists", r1.buf, NoRec, r1.io)
         /\ UNCHANGED <<students, faculty, courses, enrollments>>
    ELSE \E r2 \in {read_line(r1.io, MAX_NAME)} :
         \E r3 \in {read_line(r2.io, MAX_DEPT)} :
         \E r4 \in {read_int(r3.io)} :
         \E r5 \in {read_line(r4.io, MAX_EMAIL)} :
         \E s \in {MkStudent(r1.buf, r2.buf, r3.buf, r4.val, r5.buf)} :
           /\ Len(students.recs) < MaxStudents
           /\ students' = file_append(students, s).file
           /\ Return("add_student", "added", r1.buf, s, r5.io)
           /\ UNCHANGED <<faculty, courses, enrollments>>

\* print_student of a record with no terminator in email reads beyond the
\* object: the handler goes on, or the process dies
edit_student(io) ==
  \E r1 \in {read_line(io, MAX_ID)} :
  \E f \in {file_find_first(students, "pred_student_by_id", r1.buf)} :
    IF f.idx < 0
    THEN /\ Return("edit_student", "notfound", r1.buf, NoRec, r1.io)
         /\ UNCHANGED <<students, faculty, courses, enrollments>>
    ELSE \E dies \in (IF reads_past_object(f.out) THEN BOOLEAN ELSE {FALSE}) :
         IF dies
         THEN Die("edit_student", r1.buf)
         ELSE \E b1 \in {read_line(r1.io, EDIT_BUF_CAP)} :
              \E s1 \in {IF Len(b1.buf) > 0 THEN [f.out EXCEPT !.name = strncpy(b1.buf, MAX_NAME)] ELSE f.out} :
              \E b2 \in {read_line(b1.io, EDIT_BUF_CAP)} :
              \E s2 \in {IF Len(b2.buf) > 0 THEN [s1 EXCEPT !.dept = strncpy(b2.buf, MAX_DEPT)] ELSE s1} :
              \E b3 \in {read_line(b2.io, EDIT_BUF_CAP)} :
              \E s3 \in {IF Len(b3.buf) > 0 THEN [s2 EXCEPT !.email = strncpy(b3.buf, MAX_EMAIL)] ELSE s2} :
              \E b4 \in {read_line(b3.io, EDIT_BUF_CAP)} :
              \E s4 \in {IF Len(b4.buf) > 0 THEN [s3 EXCEPT !.batch = atoi(b4.buf)] ELSE s3} :
              \E w \in {file_write_at(students, f.idx, s4, ZeroStudent)} :
                /\ students' = w.file
                /\ Return("edit_student", IF w.ok = 1 THEN "updated" ELSE "writeerror", r1.buf, s4, b4.io)
                /\ UNCHANGED <<faculty, courses, enrollments>>

add_faculty(io) ==
  \E r1 \in {read_line(io, MAX_ID)} :
    IF file_find_first(faculty, "pred_faculty_by_id", r1.buf).idx >= 0
    THEN /\ Return("add_faculty", "exists", r1.buf, NoRec, r1.io)
         /\ UNCHANGED <<students, faculty, courses, enrollments>>
    ELSE \E r2 \in {read_line(r1.io, MAX_NAME)} :
         \E r3 \in {read_line(r2.io, MAX_DEPT)} :
         \E r4 \in {read_line(r3.io, MAX_EMAIL)} :
         \E f \in {MkFaculty(r1.buf, r2.buf, r3.buf, r4.buf)} :
           /\ Len(faculty.recs) < MaxFaculty
           /\ faculty' = file_append(faculty, f).file
           /\ Return("add_faculty", "added", r1.buf, f, r4.io)
           /\ UNCHANGED <<students, courses, enrollments>>

add_course(io) ==
  \E r1 \in {read_line(io, MAX_CODE)} :
    IF file_find_first(courses, "pred_course_by_code", r1.buf).idx >= 0
    THEN /\ Return("add_course", "exists", r1.buf, NoRec, r1.io)
         /\ UNCHANGED <<students, faculty, courses, enrollments>>
    ELSE \E r2 \in {read_line(r1.io, MAX_TITLE)} :
         \E r3 \in {read_float(r2.io)} :
         \E r4 \in {read_line(r3.io, MAX_DEPT)} :
         \E r5 \in {read_line(r4.io, MAX_ID)} :
         \E c \in {MkCourse(r1.buf, r2.buf, r3.val, r4.buf, r5.buf)} :
           /\ Len(courses.recs) < MaxCourses
           /\ courses' = file_append(courses, c).file
           /\ Return("add_course", "added", r1.buf, c, r5.io)
           /\ UNCHANGED <<students, faculty, enrollments>>

assign_instructor(io) ==
  \E r1 \in {read_line(io, MAX_CODE)} :
  \E f \in {file_find_first(courses, "pred_course_by_code", r1.buf)} :
    IF f.idx < 0
    THEN /\ Return("assign_instructor", "notfound", r1.buf, NoRec, r1.io)
         /\ UNCHANGED <<students, faculty, courses, enrollments>>
    ELSE \E r2 \in {read_line(r1.io, MAX_ID)} :
         IF file_find_first(faculty, "pred_faculty_by_id", r2.buf).idx < 0
         THEN /\ Return("assign_instructor", "nofaculty", r1.buf, r2.buf, r2.io)
              /\ UNCHANGED <<students, faculty, courses, enrollments>>
         ELSE \E c \in {[f.out EXCEPT !.instructorId = strncpy(r2.buf, MAX_ID)]} :
              \E w \in {file_write_at(courses, f.idx, c, ZeroCourse)} :
                /\ courses' = w.file
                /\ Return("assign_instructor", IF w.ok = 1 THEN "updated" ELSE "writeerror", r1.buf, r2.buf, r2.io)
                /\ UNCHANGED <<students, faculty, enrollments>>

enroll_student(io) ==
  \E r1 \in {read_line(io, MAX_ID)} :
    IF file_find_first(students, "pred_student_by_id", r1.buf).idx < 0
    THEN /\ Return("enroll_student", "nostudent", MkEnrKey(r1.buf, <<>>, <<>>), NoRec, r1.io)
         /\ UNCHANGED <<students, faculty, courses, enrollments>>
    ELSE \E r2 \in {read_line(r1.io, MAX_CODE)} :
         IF file_find_first(courses, "pred_course_by_code", r2.buf).idx < 0
         THEN /\ Return("enroll_student", "nocourse", MkEnrKey(r1.buf, r2.buf, <<>>), NoRec, r2.io)
              /\ UNCHANGED <<students, faculty, courses, enrollments>>
         ELSE \E r3 \in {read_line(r2.io, MAX_TERM)} :
              \E e \in {MkEnrollment(r1.buf, r2.buf, r3.buf, Str_G_NA)} :
              \E key \in {MkEnrKey(strncpy(e.studentId, MAX_ID), strncpy(e.courseCode, MAX_CODE), strncpy(e.term, MAX_TERM))} :
                IF file_find_first(enrollments, "pred_enr_by_key", key).idx >= 0
                THEN /\ Return("enroll_student", "exists", key, NoRec, r3.io)
                     /\ UNCHANGED <<students, faculty, courses, enrollments>>
                ELSE /\ Len(enrollments.recs) < MaxEnrollments
                     /\ enrollments' = file_append(enrollments, e).file
                     /\ Return("enroll_student", "added", key, e, r3.io)
                     /\ UNCHANGED <<students, faculty, courses>>

\* the grade entry that set_grade and the faculty menu share, from the
\* lookup of the enrollment on
enter_grade(op, key, io) ==
  \E f \in {file_find_first(enrollments, "pred_enr_by_key", key)} :
    IF f.idx < 0
    THEN /\ Return(op, "notfound", key, NoRec, io)
         /\ UNCHANGED <<students, faculty, courses, enrollments>>
    ELSE \E r \in {read_line(io, GRADE_CAP)} :
         \E g \in {upper(r.buf)} :
           IF grade_to_points(g) < 0 /\ g # Str_G_NA
           THEN /\ Return(op, "invalid", key, g, r.io)
                /\ UNCHANGED <<students, faculty, courses, enrollments>>
           ELSE \E e \in {[f.out EXCEPT !.grade = strncpy(g, 2)]} :
                \E w \in {file_write_at(enrollments, f.idx, e, ZeroEnrollment)} :
                  /\ enrollments' = w.file
                  /\ Return(op, IF w.ok = 1 THEN "updated" ELSE "writeerror", key, g, r.io)
                  /\ UNCHANGED <<students, faculty, courses>>

set_grade(io) ==
  \E r1 \in {read_line(io, MAX_ID)} :
  \E r2 \in {read_line(r1.io, MAX_CODE)} :
  \E r3 \in {read_line(r2.io, MAX_TERM)} :
    enter_grade("set_grade", MkEnrKey(strncpy(r1.buf, MAX_ID), strncpy(r2.buf, MAX_CODE), strncpy(r3.buf, MAX_TERM)), r3.io)

\* menu_faculty, choice 1: the courses whose instructor is the user
faculty_courses(u, io) ==
  /\ IF ~courses.exists
     THEN Return("faculty_courses", "nocourses", u.refId, <<>>, io)
     ELSE \E mine \in {[i \in 1..Len(courses.recs) |-> courses.recs[i].instructorId = u.refId]} :
            Return("faculty_courses", IF \E i \in 1..Len(mine) : mine[i] THEN "listed" ELSE "none", u.refId, mine, io)
  /\ UNCHANGED <<students, faculty, courses, enrollments>>

\* menu_faculty, choice 2
faculty_roster(u, io) ==
  /\ \E r1 \in {read_line(io, MAX_CODE)} :
     \E r2 \in {read_line(r1.io, MAX_TERM)} :
     \E fc \in {file_find_first(courses, "pred_course_by_code", r1.buf)} :
       IF fc.idx < 0 \/ fc.out.instructorId # u.refId
       THEN Return("faculty_roster", "notinstructor", MkEnrKey(<<>>, r1.buf, r2.buf), NoRec, r2.io)
       ELSE Return("faculty_roster", "shown", MkEnrKey(<<>>, r1.buf, r2.buf),
                   roster_for_course_term(enrollments, students, r1.buf, r2.buf), r2.io)
  /\ UNCHANGED <<students, faculty, courses, enrollments>>

\* the instructor of the course is not compared with the user
faculty_grade_any(u, io) ==
  \E r1 \in {read_line(io, MAX_CODE)} :
  \E r2 \in {read_line(r1.io, MAX_TERM)} :
  \E fc \in {file_find_first(courses, "pred_course_by_code", r1.buf)} :
    IF fc.idx < 0
    THEN /\ Return("faculty_grade", "notinstructor", MkEnrKey(<<>>, r1.buf, r2.buf), NoRec, r2.io)
         /\ UNCHANGED <<students, faculty, courses, enrollments>>
    ELSE \E r3 \in {read_line(r2.io, MAX_ID)} :
           enter_grade("faculty_grade", MkEnrKey(strncpy(r3.buf, MAX_ID), strncpy(r1.buf, MAX_CODE), strncpy(r2.buf, MAX_TERM)), r3.io)

\* menu_faculty, choice 3
faculty_grade(u, io) ==
  \E r1 \in {read_line(io, MAX_CODE)} :
  \E r2 \in {read_line(r1.io, MAX_TERM)} :
  \E fc \in {file_find_first(courses, "pred_course_by_code", r1.buf)} :
    IF fc.idx < 0 \/ fc.out.instructorId # u.refId
    THEN /\ Return("faculty_grade", "notinstructor", MkEnrKey(<<>>, r1.buf, r2.buf), NoRec, r2.io)
         /\ UNCHANGED <<students, faculty, courses, enrollments>>
    ELSE \E r3 \in {read_line(r2.io, MAX_ID)} :
           enter_grade("faculty_grade", MkEnrKey(strncpy(r3.buf, MAX_ID), strncpy(r1.buf, MAX_CODE), strncpy(r2.buf, MAX_TERM)), r3.io)

\* menu_student, choice 1
student_profile(u, io) ==
  \E f \in {file_find_first(students, "pred_student_by_id", u.refId)} :
    IF f.idx < 0
    THEN /\ Return("student_profile", "notfound", u.refId, NoRec, io)
         /\ UNCHANGED <<students, faculty, courses, enrollments>>
    ELSE \E dies \in (IF reads_past_object(f.out) THEN BOOLEAN ELSE {FALSE}) :
         IF dies
         THEN Die("student_profile", u.refId)
         ELSE /\ Return("student_profile", "shown", u.refId, print_student(f.out), io)
              /\ UNCHANGED <<students, faculty, courses, enrollments>>

\* menu_student, choice 2
student_transcript(u, io) ==
  /\ Return("student_transcript", "shown", u.refId, transcript_for_student(enrollments, courses, u.refId), io)
  /\ UNCHANGED <<students, faculty, courses, enrollments>>

\* menu_student, choice 3
list_courses(io) ==
  /\ Return("list_courses", IF courses.exists THEN "listed" ELSE "nocourses", <<>>, courses.recs, io)
  /\ UNCHANGED <<students, faculty, courses, enrollments>>

(* ======== USERS / AUTH ======== *)
add_user(f, username, role, refId, pass) ==
  IF file_find_first(f, "pred_user_by_username", username).idx >= 0 THEN f
  ELSE file_append(f, MkUser(strncpy(username, MAX_USER), role, strncpy(refId, MAX_ID), obfuscate(pass))).file

\* the demo data, appended when users.dat holds no record
bootstrap_if_empty ==
  IF file_count_records(users) = 0
  THEN \E s1 \in {MkStudent(Str_S1_id, Str_S1_name, Str_EEE, 241, Str_S1_email)} :
       \E s2 \in {MkStudent(Str_S2_id, Str_S2_name, Str_CSE, 231, Str_S2_email)} :
       \E f1 \in {MkFaculty(Str_F1_id, Str_F1_name, Str_EEE, Str_F1_email)} :
       \E f2 \in {MkFaculty(Str_F2_id, Str_F2_name, Str_CSE, Str_F2_email)} :
       \E c1 \in {MkCourse(Str_C1_code, Str_C1_title, 30, Str_EEE, Str_F1_id)} :
       \E c2 \in {MkCourse(Str_C2_code, Str_C2_title, 30, Str_CSE, Str_F2_id)} :
       \E e1 \in {MkEnrollment(Str_S1_id, Str_C1_code, Str_Fall2025, Str_G_A)} :
       \E e2 \in {MkEnrollment(Str_S1_id, Str_C2_code, Str_Fall2025, Str_G_Bp)} :
       \E e3 \in {MkEnrollment(Str_S2_id, Str_C2_code, Str_Fall2025, Str_G_Am)} :
       \E u1 \in {add_user(users, Str_U_admin, ROLE_ADMIN, <<>>, Str_P_admin)} :
       \E u2 \in {add_user(u1, Str_U_rezwan, ROLE_FACULTY, Str_F1_id, Str_P_teacher)} :
       \E u3 \in {add_user(u2, Str_U_john, ROLE_FACULTY, Str_F2_id, Str_P_teacher)} :
       \E u4 \in {add_user(u3, Str_U_sabbir, ROLE_STUDENT, Str_S1_id, Str_P_student)} :
       \E u5 \in {add_user(u4, Str_U_mim, ROLE_STUDENT, Str_S2_id, Str_P_student)} :
         /\ students' = [exists |-> TRUE, recs |-> students.recs \o <<s1, s2>>]
         /\ faculty' = [exists |-> TRUE, recs |-> faculty.recs \o <<f1, f2>>]
         /\ courses' = [exists |-> TRUE, recs |-> courses.recs \o <<c1, c2>>]
         /\ enrollments' = [exists |-> TRUE, recs |-> enrollments.recs \o <<e1, e2, e3>>]
         /\ users' = u5
         /\ last' = [NoOp EXCEPT !.op = "bootstrap", !.rc = "seeded"]
  ELSE /\ last' = [NoOp EXCEPT !.op = "bootstrap", !.rc = "skipped"]
       /\ UNCHANGED <<students, faculty, courses, enrollments, users>>

login(io) ==
  LET r1 == read_line(io, MAX_USER)
      r2 == read_line(r1.io, MAX_PASS)
      f == file_find_first(users, "pred_user_by_username", r1.buf)
  IN IF f.idx >= 0 /\ verify_pass(f.out.pass_obf, r2.buf)
     THEN [logged |-> 1, user |-> f.out, io |-> r2.io]
     ELSE [logged |-> 0, user |-> NoUser, io |-> r2.io]

(* ======== INPUTS ======== *)
Str_S3 == <<83, 51>>  \* "S3"
Str_S9 == <<83, 57>>  \* "S9"
Str_F3 == <<70, 51>>  \* "F3"
Str_F9 == <<70, 57>>  \* "F9"
Str_C3 == <<67, 51>>  \* "C3"
Str_C9 == <<67, 57>>  \* "C9"
Str_3 == <<51>>  \* "3"
Str_241 == <<50, 52, 49>>  \* "241"
Str_bad == <<98, 97, 100>>  \* "bad"
\* twenty characters for a sixteen-byte id
LongId == Rep(88, 20)
\* seventy characters for the 64-byte name
LongName == Rep(110, 70)
\* sixty-four characters for the 64-byte email
LongEmail == Rep(101, 64)

AddStudentInputs == {<<id, <<78>>, Str_EEE, Str_241, <<101>>>> : id \in {Str_S1_id, Str_S3, LongId}}

EditStudentInputs == {<<id>> \o t : id \in {Str_S1_id, Str_S9}, t \in {<<<<>>, <<>>, <<>>, <<>>>>, <<LongName, <<>>, <<>>, <<>>>>, <<<<>>, <<>>, LongEmail, <<>>>>}}

AddFacultyInputs == {<<id, <<78>>, Str_CSE, <<101>>>> : id \in {Str_F1_id, Str_F3}}

AddCourseInputs == {<<code, <<84>>, Str_3, Str_CSE, ins>> : code \in {Str_C1_code, Str_C3}, ins \in {Str_F9}}

AssignInputs == {<<code, fid>> : code \in {Str_C1_code, Str_C9}, fid \in {Str_F2_id, Str_F9}}

EnrollInputs == {<<sid, code, Str_Fall2025>> : sid \in {Str_S2_id, Str_S9}, code \in {Str_C1_code, Str_C9}}

GradeInputs == {<<98>>, <<110, 97>>, <<122>>}

SetGradeInputs == {<<sid, Str_C1_code, Str_Fall2025, g>> : sid \in {Str_S1_id, Str_S9}, g \in GradeInputs}

FacultyRosterInputs == {<<code, Str_Fall2025>> : code \in {Str_C1_code, Str_C2_code, Str_C9}}

FacultyGradeInputs == {<<code, Str_Fall2025, Str_S1_id, g>> : code \in {Str_C1_code, Str_C2_code}, g \in {<<98>>, <<113>>}}

LoginInputs == {<<Str_U_admin, Str_P_admin>>, <<Str_U_rezwan, Str_P_teacher>>, <<Str_U_sabbir, Str_P_student>>, <<Str_U_admin, Str_bad>>}

(* ======== MAIN ======== *)
Init ==
  /\ students = NoFile
  /\ faculty = NoFile
  /\ courses = NoFile
  /\ enrollments = NoFile
  /\ users = NoFile
  /\ mode = "boot"
  /\ session = NoUser
  /\ stdin = <<>>
  /\ last = NoOp
  /\ sfile = NoFile
  /\ sres = NoOp

\* main(), up to the login loop
Boot ==
  /\ mode = "boot"
  /\ bootstrap_if_empty
  /\ mode' = "login"
  /\ UNCHANGED <<session, stdin, sfile, sres>>

\* the process is killed and started again; the files stay
Restart ==
  /\ mode # "boot"
  /\ mode # "store"
  /\ mode' = "boot"
  /\ session' = NoUser
  /\ stdin' = <<>>
  /\ last' = [NoOp EXCEPT !.op = "restart"]
  /\ UNCHANGED <<students, faculty, courses, enrollments, users, sfile, sres>>

RoleMode(role) == IF role = ROLE_ADMIN THEN "admin" ELSE IF role = ROLE_FACULTY THEN "faculty" ELSE IF role = ROLE_STUDENT THEN "student" ELSE "login"

\* one turn of main's loop up to the menu: login() succeeds, or fails and
\* pause_enter() waits for the user, who presses ENTER twice
Login ==
  /\ mode = "login"
  /\ \E t \in LoginInputs :
     \E l \in {login(Io(stdin, t \o <<<<>>, <<>>>>))} :
       IF l.logged = 1
       THEN /\ session' = l.user
            /\ mode' = RoleMode(l.user.role)
            /\ stdin' = l.io.pending
            /\ last' = [NoOp EXCEPT !.op = "login", !.rc = "ok", !.key = l.user.username]
       ELSE /\ session' = NoUser
            /\ mode' = "login"
            /\ stdin' = pause_enter(l.io).pending
            /\ last' = [NoOp EXCEPT !.op = "login", !.rc = "invalid"]
  /\ UNCHANGED <<students, faculty, courses, enrollments, users, sfile, sres>>

\* read_int("Choose: ") of a menu, the user about to type choice n and then t
Choose(n, t) == read_int(Io(stdin, <<Digits(n)>> \o t))

\* choice 0 of a menu
Logout(m) ==
  /\ mode = m
  /\ \E c \in {Choose(0, <<>>)} :
       /\ c.val = 0
       /\ stdin' = c.io.pending
  /\ mode' = "login"
  /\ session' = NoUser
  /\ last' = [NoOp EXCEPT !.op = "logout"]
  /\ UNCHANGED <<students, faculty, courses, enrollments, users, sfile, sres>>

(* ======== MENUS ======== *)
AdminLogout == Logout("admin")

AdminAddStudent ==
  /\ mode = "admin"
  /\ \E t \in AddStudentInputs : \E c \in {Choose(1, t)} : c.val = 1 /\ add_student(c.io)

AdminEditStudent ==
  /\ mode = "admin"
  /\ \E t \in EditStudentInputs : \E c \in {Choose(2, t)} : c.val = 2 /\ edit_student(c.io)

AdminAddFaculty ==
  /\ mode = "admin"
  /\ \E t \in AddFacultyInputs : \E c \in {Choose(4, t)} : c.val = 4 /\ add_faculty(c.io)

AdminAddCourse ==
  /\ mode = "admin"
  /\ \E t \in AddCourseInputs : \E c \in {Choose(6, t)} : c.val = 6 /\ add_course(c.io)

AdminAssignInstructor ==
  /\ mode = "admin"
  /\ \E t \in AssignInputs : \E c \in {Choose(7, t)} : c.val = 7 /\ assign_instructor(c.io)

AdminEnroll ==
  /\ mode = "admin"
  /\ \E t \in EnrollInputs : \E c \in {Choose(9, t)} : c.val = 9 /\ enroll_student(c.io)

AdminSetGrade ==
  /\ mode = "admin"
  /\ \E t \in SetGradeInputs : \E c \in {Choose(10, t)} : c.val = 10 /\ set_grade(c.io)

\* a choice the switch has no case for
AdminInvalid ==
  /\ mode = "admin"
  /\ \E c \in {Choose(99, <<>>)} :
       /\ c.val < 0 \/ c.val > 13
       /\ stdin' = c.io.pending
  /\ last' = [NoOp EXCEPT !.op = "invalid"]
  /\ UNCHANGED <<students, faculty, courses, enrollments, users, mode, session, sfile, sres>>

FacultyLogout == Logout("faculty")

FacultyGrade ==
  /\ mode = "faculty"
  /\ \E t \in FacultyGradeInputs : \E c \in {Choose(3, t)} : c.val = 3 /\ faculty_grade(session, c.io)

FacultyCourses ==
  /\ mode = "faculty"
  /\ \E c \in {Choose(1, <<>>)} : c.val = 1 /\ faculty_courses(session, c.io)

FacultyRoster ==
  /\ mode = "faculty"
  /\ \E t \in FacultyRosterInputs : \E c \in {Choose(2, t)} : c.val = 2 /\ faculty_roster(session, c.io)

\* a choice that is none of 0, 1, 2, 3
FacultyInvalid ==
  /\ mode = "faculty"
  /\ \E c \in {Choose(9, <<>>)} :
       /\ c.val < 0 \/ c.val > 3
       /\ stdin' = c.io.pending
  /\ last' = [NoOp EXCEPT !.op = "invalid"]
  /\ UNCHANGED <<students, faculty, courses, enrollments, users, mode, session, sfile, sres>>

StudentLogout == Logout("student")

StudentProfile ==
  /\ mode = "student"
  /\ \E c \in {Choose(1, <<>>)} : c.val = 1 /\ student_profile(session, c.io)

StudentTranscript ==
  /\ mode = "student"
  /\ \E c \in {Choose(2, <<>>)} : c.val = 2 /\ student_transcript(session, c.io)

StudentListCourses ==
  /\ mode = "student"
  /\ \E c \in {Choose(3, <<>>)} : c.val = 3 /\ list_courses(c.io)

\* a choice that is none of 0, 1, 2, 3
StudentInvalid ==
  /\ mode = "student"
  /\ \E c \in {Choose(9, <<>>)} :
       /\ c.val < 0 \/ c.val > 3
       /\ stdin' = c.io.pending
  /\ last' = [NoOp EXCEPT !.op = "invalid"]
  /\ UNCHANGED <<students, faculty, courses, enrollments, users, mode, session, sfile, sres>>

Next ==
  \/ Boot
  \/ Restart
  \/ Login
  \/ AdminLogout
  \/ AdminAddStudent
  \/ AdminEditStudent
  \/ AdminAddFaculty
  \/ AdminAddCourse
  \/ AdminAssignInstructor
  \/ AdminEnroll
  \/ AdminSetGrade
  \/ AdminInvalid
  \/ FacultyLogout
  \/ FacultyCourses
  \/ FacultyRoster
  \/ FacultyGrade
  \/ FacultyInvalid
  \/ StudentLogout
  \/ StudentProfile
  \/ StudentTranscript
  \/ StudentListCourses
  \/ StudentInvalid

Spec == Init /\ [][Next]_vars

(***************************************************************************)
(* The FILE HELPERS on their own: one file of Student records, and any     *)
(* sequence of calls of the five helpers on it, with any index and key.    *)
(***************************************************************************)
StoreRecs == {MkStudent(id, name, <<>>, 0, <<>>) : id \in {<<97>>, <<98>>}, name \in {<<112>>, <<113>>}}

StoreKeys == {<<97>>, <<98>>, <<99>>, <<>>}

StoreRes(op, index, rec, key, ret, out) == [op |-> op, index |-> index, rec |-> rec, key |-> key, ret |-> ret, out |-> out, n |-> file_count_records(sfile), existed |-> sfile.exists]

StoreInit ==
  /\ students = NoFile
  /\ faculty = NoFile
  /\ courses = NoFile
  /\ enrollments = NoFile
  /\ users = NoFile
  /\ mode = "store"
  /\ session = NoUser
  /\ stdin = <<>>
  /\ last = NoOp
  /\ sfile = NoFile
  /\ sres = [op |-> "none", index |-> -1, rec |-> NoRec, key |-> <<>>, ret |-> 0, out |-> NoRec, n |-> 0, existed |-> FALSE]

StoreAppend ==
  /\ Len(sfile.recs) < MaxStoreLen
  /\ \E r \in StoreRecs :
       LET a == file_append(sfile, r)
       IN /\ sfile' = a.file
          /\ sres' = StoreRes("append", -1, r, <<>>, a.ok, NoRec)
  /\ UNCHANGED <<students, faculty, courses, enrollments, users, mode, session, stdin, last>>

StoreWriteAt ==
  /\ \E i \in -1..(MaxStoreLen - 1), r \in StoreRecs :
       LET w == file_write_at(sfile, i, r, ZeroStudent)
       IN /\ sfile' = w.file
          /\ sres' = StoreRes("write_at", i, r, <<>>, w.ok, NoRec)
  /\ UNCHANGED <<students, faculty, courses, enrollments, users, mode, session, stdin, last>>

StoreReadAt ==
  /\ \E i \in -1..MaxStoreLen :
       LET r == file_read_at(sfile, i)
       IN sres' = StoreRes("read_at", i, NoRec, <<>>, r.ok, r.out)
  /\ UNCHANGED <<students, faculty, courses, enrollments, users, mode, session, stdin, last, sfile>>

StoreFindFirst ==
  /\ \E k \in StoreKeys :
       LET f == file_find_first(sfile, "pred_student_by_id", k)
       IN sres' = StoreRes("find_first", -1, NoRec, k, f.idx, f.out)
  /\ UNCHANGED <<students, faculty, courses, enrollments, users, mode, session, stdin, last, sfile>>

StoreCount ==
  /\ sres' = StoreRes("count", -1, NoRec, <<>>, file_count_records(sfile), NoRec)
  /\ UNCHANGED <<students, faculty, courses, enrollments, users, mode, session, stdin, last, sfile>>

StoreNext ==
  \/ StoreAppend
  \/ StoreWriteAt
  \/ StoreReadAt
  \/ StoreFindFirst
  \/ StoreCount

SpecStore == StoreInit /\ [][StoreNext]_vars

(***************************************************************************)
(* The REPORTS on their own: the three reports and grade_to_points run on  *)
(* the files as they find them.  The files are what a run of the menus, or *)
(* anything else that writes a file, can have left: any order of records,  *)
(* a course with the credit that was typed, an Enrollment whose student or *)
(* course has no record.                                                   *)
(***************************************************************************)
Str_Spring2026 == <<83, 112, 114, 105, 110, 103, 45, 50, 48, 50, 54>>  \* "Spring-2026"

Str_0 == <<48>>  \* "0"

Str_m3 == <<45, 51>>  \* "-3"

ReportStudents == [exists |-> TRUE,
                   recs |-> <<MkStudent(Str_S1_id, Str_S1_name, Str_EEE, 241, Str_S1_email),
                              MkStudent(Str_S2_id, Str_S2_name, Str_CSE, 231, Str_S2_email)>>]

\* the credit of the first course is read_float's of what was typed
ReportCourses ==
  {[exists |-> TRUE,
    recs |-> <<MkCourse(Str_C1_code, Str_C1_title, atof(c), Str_EEE, Str_F1_id),
               MkCourse(Str_C2_code, Str_C2_title, 30, Str_CSE, Str_F2_id)>>] : c \in {Str_3, Str_0, Str_m3}}
  \cup {[exists |-> TRUE, recs |-> <<MkCourse(Str_C1_code, Str_C1_title, 30, Str_EEE, Str_F1_id)>>]}

ReportEnrs ==
  {MkEnrollment(Str_S1_id, Str_C1_code, Str_Fall2025, Str_G_A),
   MkEnrollment(Str_S1_id, Str_C1_code, Str_Fall2025, Str_G_NA),
   MkEnrollment(Str_S1_id, Str_C2_code, Str_Fall2025, Str_G_Bp),
   MkEnrollment(Str_S1_id, Str_C1_code, Str_Spring2026, Str_G_A),
   MkEnrollment(Str_S2_id, Str_C1_code, Str_Fall2025, Str_G_A),
   MkEnrollment(Str_S2_id, Str_C1_code, Str_Fall2025, Str_G_Bp),
   MkEnrollment(Str_S2_id, Str_C2_code, Str_Fall2025, Str_G_A),
   MkEnrollment(Str_S9, Str_C1_code, Str_Fall2025, Str_G_A),
   MkEnrollment(Str_S9, Str_C2_code, Str_Fall2025, Str_G_F)}

\* the Enrollment files: up to MaxReportEnr records with no (studentId,
\* courseCode, term) twice; main's bootstrap has made the file
ReportEnrollments ==
  {[exists |-> TRUE, recs |-> q] :
     q \in {r \in UNION {[1..n -> ReportEnrs] : n \in 0..MaxReportEnr} :
              \A i, j \in 1..Len(r) :
                <<r[i].studentId, r[i].courseCode, r[i].term>> = <<r[j].studentId, r[j].courseCode, r[j].term>> => i = j}}

\* what is passed to grade_to_points
GradeSymbols ==
  {Str_G_A, Str_G_Am, Str_G_Bp, Str_G_B, Str_G_Bm, Str_G_Cp, Str_G_C, Str_G_Cm, Str_G_D, Str_G_F,
   Str_G_NA, <<90>>, <<>>, <<97>>, <<98, 43>>, <<102>>}

ReportRes(op, key, out) == [op |-> op, key |-> key, out |-> out]

ReportInit ==
  /\ students = ReportStudents
  /\ faculty = NoFile
  /\ courses \in ReportCourses
  /\ enrollments \in ReportEnrollments
  /\ users = NoFile
  /\ mode = "report"
  /\ session = NoUser
  /\ stdin = <<>>
  /\ last = NoOp
  /\ sfile = NoFile
  /\ sres = ReportRes("none", <<>>, NoRec)

ReportTranscript ==
  /\ \E sid \in {Str_S1_id, Str_S9} :
       sres' = ReportRes("transcript", sid, transcript_for_student(enrollments, courses, sid))
  /\ UNCHANGED <<students, faculty, courses, enrollments, users, mode, session, stdin, last, sfile>>

ReportRoster ==
  /\ \E code \in {Str_C1_code, Str_C2_code}, term \in {Str_Fall2025} :
       sres' = ReportRes("roster", <<code, term>>, roster_for_course_term(enrollments, students, code, term))
  /\ UNCHANGED <<students, faculty, courses, enrollments, users, mode, session, stdin, last, sfile>>

ReportLeaderboard ==
  /\ \E term \in {Str_Fall2025} :
       sres' = ReportRes("leaderboard", term, gpa_leaderboard(enrollments, courses, students, term))
  /\ UNCHANGED <<students, faculty, courses, enrollments, users, mode, session, stdin, last, sfile>>

ReportGrade ==
  /\ \E g \in GradeSymbols :
       sres' = ReportRes("grade_to_points", g, grade_to_points(g))
  /\ UNCHANGED <<students, faculty, courses, enrollments, users, mode, session, stdin, last, sfile>>

ReportNext ==
  \/ ReportTranscript
  \/ ReportRoster
  \/ ReportLeaderboard
  \/ ReportGrade

SpecReport == ReportInit /\ [][ReportNext]_vars

(* ======== PROPERTIES ======== *)
Recs(f) == {f.recs[i] : i \in 1..Len(f.recs)}

HasStudent(id) == \E r \in Recs(students) : r.id = id

HasFaculty(id) == \E r \in Recs(faculty) : r.id = id

HasCourse(code) == \E r \in Recs(courses) : r.code = code

HasUser(name) == \E r \in Recs(users) : r.username = name

EnrTriple(e) == <<e.studentId, e.courseCode, e.term>>

KeyTriple(k) == <<k.sid, k.code, k.term>>

HasEnrollment(k) == \E r \in Recs(enrollments) : EnrTriple(r) = KeyTriple(k)

StudentKeys(f) == [i \in 1..Len(f.recs) |-> f.recs[i].id]

FacultyKeys(f) == [i \in 1..Len(f.recs) |-> f.recs[i].id]

CourseKeys(f) == [i \in 1..Len(f.recs) |-> f.recs[i].code]

UserKeys(f) == [i \in 1..Len(f.recs) |-> f.recs[i].username]

EnrollmentKeys(f) == [i \in 1..Len(f.recs) |-> EnrTriple(f.recs[i])]

Injective(q) == \A i, j \in 1..Len(q) : q[i] = q[j] => i = j

\* C1: in every reachable state no two Students share an id, no two Faculty
\* share an id, no two Courses share a code, no two Users share a username and
\* no two Enrollments share the triple (studentId, courseCode, term).
C1_UniqueKeys ==
  /\ Injective(StudentKeys(students))
  /\ Injective(FacultyKeys(faculty))
  /\ Injective(CourseKeys(courses))
  /\ Injective(UserKeys(users))
  /\ Injective(EnrollmentKeys(enrollments))

\* a later process start, after records were added, at which the bootstrap ran again
C1_Witness ==
  /\ last.op = "bootstrap"
  /\ last.rc = "skipped"
  /\ Len(students.recs) > 2
  /\ Len(faculty.recs) > 2
  /\ Len(enrollments.recs) > 3

\* an add or an enrollment under a key its store already holds
DuplicateStep ==
  \/ last'.op = "add_student" /\ HasStudent(last'.key)
  \/ last'.op = "add_faculty" /\ HasFaculty(last'.key)
  \/ last'.op = "add_course" /\ HasCourse(last'.key)
  \/ last'.op = "enroll_student" /\ HasEnrollment(last'.key)

\* C2: an add or enroll whose key equals the key of a record already in its
\* store leaves every record of all five stores unchanged and reports the
\* rejection; add_user with a username the User store holds returns the store
\* as it was.
C2_DuplicateRejected ==
  /\ [][DuplicateStep => (stores' = stores /\ last'.rc = "exists")]_vars
  /\ [](\A u \in Recs(users) : add_user(users, u.username, ROLE_STUDENT, Str_S9, Str_bad) = users)

\* a second enrollment of the same student in the same course and term was refused
C2_Witness ==
  /\ last.op = "enroll_student"
  /\ last.rc = "exists"
  /\ Len(users.recs) = 5

\* C3: every Enrollment's studentId is the id of a Student record and its
\* courseCode the code of a Course record; enroll_student with a studentId or
\* courseCode that matches no record appends nothing.
C3_EnrollmentRefs ==
  /\ [](\A e \in Recs(enrollments) : HasStudent(e.studentId) /\ HasCourse(e.courseCode))
  /\ [][(last'.op = "enroll_student" /\ (~HasStudent(last'.key.sid) \/ (last'.rc # "nostudent" /\ ~HasCourse(last'.key.code))))
          => (stores' = stores /\ last'.rc \in {"nostudent", "nocourse"})]_vars

\* an enrollment for a course code no Course record has was refused
C3_Witness ==
  /\ last.op = "enroll_student"
  /\ last.rc = "nocourse"
  /\ last.key.code = Str_C9
  /\ Len(enrollments.recs) = 4

ValidGrades == {Str_G_A, Str_G_Am, Str_G_Bp, Str_G_B, Str_G_Bm, Str_G_Cp, Str_G_C, Str_G_Cm, Str_G_D, Str_G_F}

\* C4: every Enrollment's grade is "NA" or one of the ten grade symbols; a new
\* enrollment carries "NA", and the grade entry of the admin and of the faculty
\* menu stores the upper-cased input only when it is a valid symbol or "NA".
C4_GradeDomain ==
  /\ [](\A e \in Recs(enrollments) : e.grade \in ValidGrades \cup {Str_G_NA})
  /\ [][(last'.op = "enroll_student" /\ last'.rc = "added")
          => enrollments'.recs[Len(enrollments'.recs)].grade = Str_G_NA]_vars
  /\ [][(last'.op \in {"set_grade", "faculty_grade"} /\ last'.rc = "updated")
          => (/\ last'.arg \in ValidGrades \cup {Str_G_NA}
              /\ \E i \in 1..Len(enrollments.recs) :
                   /\ EnrTriple(enrollments.recs[i]) = KeyTriple(last'.key)
                   /\ enrollments'.recs[i].grade = last'.arg)]_vars
  /\ [][(last'.op \in {"set_grade", "faculty_grade"} /\ last'.rc = "invalid")
          => (last'.arg \notin ValidGrades \cup {Str_G_NA} /\ stores' = stores)]_vars

\* the admin typed "b" and the enrollment now carries "B"
C4_Witness ==
  /\ last.op = "set_grade"
  /\ last.rc = "updated"
  /\ last.arg = Str_G_B
  /\ \E e \in Recs(enrollments) : EnrTriple(e) = KeyTriple(last.key) /\ e.grade = Str_G_B

\* C5: a successful append(r) on a store of n records (n = 0 too, the file not
\* existing yet) makes count() n+1 and readAt(n) r, and leaves readAt(i) for
\* every i < n as it was.
C5_AppendMonotone ==
  [][sres'.op = "append"
       => (/\ sres'.ret = 1
           /\ file_count_records(sfile') = file_count_records(sfile) + 1
           /\ file_read_at(sfile', file_count_records(sfile)) = [ok |-> 1, out |-> sres'.rec]
           /\ \A i \in 0..(file_count_records(sfile) - 1) :
                /\ file_read_at(sfile, i).ok = 1
                /\ file_read_at(sfile', i) = file_read_at(sfile, i))]_vars

\* a record was appended to a file that did not exist, and then another to the
\* file it made
C5_Witness ==
  /\ sres.op = "append"
  /\ sres.existed
  /\ sres.n = 1
  /\ file_count_records(sfile) = 2
  /\ file_read_at(sfile, 1).out = sres.rec

\* the indices of the records of the file under test whose id is key
Matches(key) == {i \in 0..(Len(sfile.recs) - 1) : sfile.recs[i + 1].id = key}

\* C6: findFirst returns the smallest index whose record satisfies the
\* predicate, with a copy of that record; it returns -1 exactly when no record
\* does, which includes the file that does not exist; it never changes the store.
C6_FindFirst ==
  /\ [](sres.op = "find_first"
          => (/\ (sres.ret = -1) <=> (Matches(sres.key) = {} \/ ~sfile.exists)
              /\ sres.ret # -1
                   => (/\ sres.ret \in Matches(sres.key)
                       /\ \A j \in Matches(sres.key) : sres.ret <= j
                       /\ sres.out = sfile.recs[sres.ret + 1])))
  /\ [][sres'.op = "find_first" => sfile' = sfile]_vars

\* a search that passed over a record and stopped at the first of two matches
C6_Witness ==
  /\ sres.op = "find_first"
  /\ sres.ret = 1
  /\ Matches(sres.key) = {1, 2}
  /\ sfile.recs[2] # sfile.recs[3]
  /\ sres.out = sfile.recs[2]

\* C7: writeAt(index, record) with index >= count() fails and leaves the
\* record count and every record of the store unchanged.
C7_WriteAtOutOfRange ==
  [][(sres'.op = "write_at" /\ sres'.index >= file_count_records(sfile))
       => (sres'.ret = 0 /\ sfile' = sfile)]_vars

\* q2 is q with, perhaps, more at its end
Extends(q, q2) == Len(q2) >= Len(q) /\ \A i \in 1..Len(q) : q2[i] = q[i]

\* C8: the record count of no store ever decreases and the key stored at an
\* existing index never changes, so the index a find-by-key returned still
\* addresses the record with that key at the write-by-index that follows.
C8_StableIndices ==
  [][/\ Extends(StudentKeys(students), StudentKeys(students'))
     /\ Extends(FacultyKeys(faculty), FacultyKeys(faculty'))
     /\ Extends(CourseKeys(courses), CourseKeys(courses'))
     /\ Extends(EnrollmentKeys(enrollments), EnrollmentKeys(enrollments'))
     /\ Extends(UserKeys(users), UserKeys(users'))
     /\ (last'.op = "edit_student" /\ last'.rc = "updated") => last'.arg \in Recs(students') /\ last'.arg.id = last'.key
     /\ (last'.op = "assign_instructor" /\ last'.rc = "updated")
          => \E c \in Recs(courses') : c.code = last'.key /\ c.instructorId = last'.arg
     /\ (last'.op = "set_grade" /\ last'.rc = "updated")
          => \E e \in Recs(enrollments') : EnrTriple(e) = KeyTriple(last'.key) /\ e.grade = last'.arg]_vars

\* the instructor of the first course was replaced after a third course had
\* been appended behind it
C8_Witness ==
  /\ last.op = "assign_instructor"
  /\ last.rc = "updated"
  /\ Len(courses.recs) = 3
  /\ courses.recs[1].code = last.key
  /\ courses.recs[1].instructorId = Str_F2_id

\* the records of f and f2 differ at most where the key is k
OnlyKeyChanged(keys, f, f2, k) ==
  /\ Len(f2.recs) = Len(f.recs)
  /\ f2.exists = f.exists
  /\ \A i \in 1..Len(f.recs) : f2.recs[i] # f.recs[i] => keys[i] = k

\* C9: edit_student, assign_instructor and set_grade change at most the one
\* record whose key was given, in their own store, and change no record of any
\* store when the key is not found, when assign_instructor is given a faculty
\* id with no Faculty record, or when set_grade is given a grade that is
\* neither valid nor "NA".
C9_UpdateFrame ==
  [][/\ last'.op = "edit_student"
          => (/\ <<faculty', courses', enrollments', users'>> = <<faculty, courses, enrollments, users>>
              /\ OnlyKeyChanged(StudentKeys(students), students, students', last'.key)
              /\ ~HasStudent(last'.key) => students' = students)
     /\ last'.op = "assign_instructor"
          => (/\ <<students', faculty', enrollments', users'>> = <<students, faculty, enrollments, users>>
              /\ OnlyKeyChanged(CourseKeys(courses), courses, courses', last'.key)
              /\ (~HasCourse(last'.key) \/ ~HasFaculty(last'.arg)) => courses' = courses)
     /\ last'.op = "set_grade"
          => (/\ <<students', faculty', courses', users'>> = <<students, faculty, courses, users>>
              /\ OnlyKeyChanged(EnrollmentKeys(enrollments), enrollments, enrollments', KeyTriple(last'.key))
              /\ (~HasEnrollment(last'.key) \/ last'.arg \notin ValidGrades \cup {Str_G_NA})
                   => enrollments' = enrollments)]_vars

\* assign_instructor found the course but no Faculty record for the id it was given
C9_Witness ==
  /\ last.op = "assign_instructor"
  /\ last.rc = "nofaculty"
  /\ HasCourse(last.key)
  /\ last.arg = Str_F9
  /\ \E c \in Recs(courses) : c.code = last.key /\ c.instructorId = Str_F1_id

\* C10: every string field of every stored record holds at most capacity-1
\* characters, so that its terminator lies inside its own slot and a read of
\* the field stops there.
C10_FieldsTerminated ==
  /\ \A r \in Recs(students) :
       /\ Len(r.id) < MAX_ID
       /\ Len(r.name) < MAX_NAME
       /\ Len(r.dept) < MAX_DEPT
       /\ Len(r.email) < MAX_EMAIL
       /\ print_student(r) = r
  /\ \A r \in Recs(faculty) : Len(r.id) < MAX_ID /\ Len(r.name) < MAX_NAME /\ Len(r.dept) < MAX_DEPT /\ Len(r.email) < MAX_EMAIL
  /\ \A r \in Recs(courses) : Len(r.code) < MAX_CODE /\ Len(r.title) < MAX_TITLE /\ Len(r.dept) < MAX_DEPT /\ Len(r.instructorId) < MAX_ID
  /\ \A r \in Recs(enrollments) : Len(r.studentId) < MAX_ID /\ Len(r.courseCode) < MAX_CODE /\ Len(r.term) < MAX_TERM /\ Len(r.grade) < GRADE_CAP
  /\ \A r \in Recs(users) : Len(r.username) < MAX_USER /\ Len(r.refId) < MAX_ID

\* the Course record with this code
CourseOf(code) == CHOOSE c \in Recs(courses) : c.code = code

\* the Enrollments of student sid whose course has a record, in store order
TranscriptEnrs(sid) ==
  LET Considered(e) == e.studentId = sid /\ HasCourse(e.courseCode)
  IN SelectSeq(enrollments.recs, Considered)

\* those of q with a valid grade
Graded(q) ==
  LET Valid(e) == e.grade \in ValidGrades
  IN SelectSeq(q, Valid)

RECURSIVE CreditSum(_)
CreditSum(q) == IF q = <<>> THEN 0 ELSE CourseOf(Head(q).courseCode).credit + CreditSum(Tail(q))

\* the points of the ten valid grades, in hundredths
PointsOf ==
  (Str_G_A :> 400) @@ (Str_G_Am :> 370) @@ (Str_G_Bp :> 330) @@ (Str_G_B :> 300) @@ (Str_G_Bm :> 270) @@
  (Str_G_Cp :> 230) @@ (Str_G_C :> 200) @@ (Str_G_Cm :> 170) @@ (Str_G_D :> 100) @@ (Str_G_F :> 0)

RECURSIVE PointSum(_)
PointSum(q) ==
  IF q = <<>> THEN 0
  ELSE PointsOf[Head(q).grade] * CourseOf(Head(q).courseCode).credit + PointSum(Tail(q))

\* C11: the transcript of a student has one line for each of the student's
\* enrollments whose course has a record, in store order; the sums are of
\* points*credit and of credit over those with a valid grade, "NA" adding to
\* neither; the last line is the CGPA, totalPoints/totalCredits to two
\* places, when totalCredits > 0, and "no graded credits" with no CGPA
\* otherwise.  Grades A and B+ on two 3.0-credit courses give 3.65.
C11_Transcript ==
  sres.op = "transcript" =>
    LET q == TranscriptEnrs(sres.key)
        g == Graded(q)
        out == sres.out
    IN /\ out.head = "transcript"
       /\ Len(out.rows) = Len(q)
       /\ \A i \in 1..Len(q) :
            /\ out.rows[i].code = q[i].courseCode
            /\ out.rows[i].term = q[i].term
            /\ out.rows[i].grade = q[i].grade
            /\ out.rows[i].credit = CourseOf(q[i].courseCode).credit
       /\ out.totalCred = CreditSum(g)
       /\ out.totalPts = PointSum(g)
       /\ CreditSum(g) > 0 =>
            /\ out.tail = "cgpa"
            /\ 2 * CreditSum(g) * out.cgpa <= 2 * PointSum(g) + CreditSum(g)
            /\ 2 * PointSum(g) + CreditSum(g) < 2 * CreditSum(g) * (out.cgpa + 1)
       /\ CreditSum(g) <= 0 => out.tail = "nograded" /\ out.cgpa = -1
       /\ ({<<e.grade, CourseOf(e.courseCode).credit>> : e \in Recs([recs |-> g])} = {<<Str_G_A, 30>>, <<Str_G_Bp, 30>>}
             /\ Len(g) = 2)
            => out.cgpa = 365

\* the transcript of a student with an A and a B+ on two 3.0-credit courses,
\* read from a file that also holds an enrollment of another student
C11_Witness ==
  /\ sres.op = "transcript"
  /\ sres.key = Str_S1_id
  /\ Len(enrollments.recs) = 3
  /\ Len(sres.out.rows) = 2
  /\ [i \in 1..2 |-> sres.out.rows[i].grade] = <<Str_G_A, Str_G_Bp>>
  /\ sres.out.totalCred = 60
  /\ sres.out.totalPts = 21900
  /\ sres.out.tail = "cgpa"
  /\ sres.out.cgpa = 365

\* points/credits, and 0 when credits = 0, as a fraction with a positive denominator
TermGpa(a) ==
  IF a.cred = 0 THEN [num |-> 0, den |-> 1]
  ELSE IF a.cred > 0 THEN [num |-> a.pts, den |-> a.cred]
  ELSE [num |-> 0 - a.pts, den |-> 0 - a.cred]

\* the place of student sid among the accumulators as they were filled, which
\* is the order of first appearance among the term's graded enrollments
FirstSeen(filled, sid) == CHOOSE i \in 1..Len(filled) : filled[i].sid = sid

\* every Enrollment is of a student and a course that have a record, as
\* enroll_student leaves it
MenuWritten ==
  \A e \in Recs(enrollments) : HasStudent(e.studentId) /\ HasCourse(e.courseCode)

\* C12: the leaderboard lists its entries in non-increasing order of term GPA
\* (points/credits, 0 when credits = 0), and entries with equal GPA in the
\* order in which their students first appear among the term's graded
\* enrollments; the sort ends with the entries it began with.
C12_LeaderboardOrder ==
  (sres.op = "leaderboard" /\ MenuWritten) =>
    LET out == sres.out
        n == Len(out.accs)
    IN /\ Len(out.filled) = n
       /\ Len(out.rows) = n
       /\ \A a \in Recs([recs |-> out.filled]) : \E i \in 1..n : out.accs[i] = a
       /\ \A i, j \in 1..n :
            i < j =>
              /\ TermGpa(out.accs[i]).num * TermGpa(out.accs[j]).den >= TermGpa(out.accs[j]).num * TermGpa(out.accs[i]).den
              /\ TermGpa(out.accs[i]).num * TermGpa(out.accs[j]).den = TermGpa(out.accs[j]).num * TermGpa(out.accs[i]).den
                   => FirstSeen(out.filled, out.accs[i].sid) < FirstSeen(out.filled, out.accs[j].sid)

\* C13: every entry of the leaderboard has accumulated credits > 0, whatever
\* add_course, enroll_student and set_grade have put in the Course and
\* Enrollment files.
C13_LeaderboardCredits ==
  (sres.op = "leaderboard" /\ MenuWritten) =>
    \A i \in 1..Len(sres.out.rows) : sres.out.rows[i].cred > 0

\* the Enrollments of the course and term whose student has a record, in store order
RosterEnrs(code, term) ==
  LET Listed(e) == e.courseCode = code /\ e.term = term /\ HasStudent(e.studentId)
  IN SelectSeq(enrollments.recs, Listed)

\* C14: the roster of a course and term has, in store order, exactly one entry
\* for each Enrollment of that course and term whose student has a record, with
\* that student's id and name and the enrollment's grade; an Enrollment whose
\* student has no record is left out and the report is still made.
C14_Roster ==
  sres.op = "roster" =>
    LET q == RosterEnrs(sres.key[1], sres.key[2])
        out == sres.out
    IN /\ out.head = "roster"
       /\ Len(out.rows) = Len(q)
       /\ out.count = Len(q)
       /\ \A i \in 1..Len(q) :
            /\ out.rows[i].id = q[i].studentId
            /\ out.rows[i].grade = q[i].grade
            /\ \E r \in Recs(students) : r.id = q[i].studentId /\ r.name = out.rows[i].name

\* a roster of one entry, made from a file that holds, before it, an Enrollment
\* of the same course and term whose student has no record, and an Enrollment
\* of the same course in another term
C14_Witness ==
  /\ sres.op = "roster"
  /\ sres.key = <<Str_C1_code, Str_Fall2025>>
  /\ Len(enrollments.recs) = 3
  /\ enrollments.recs[1].studentId = Str_S9
  /\ enrollments.recs[1].courseCode = Str_C1_code
  /\ enrollments.recs[2].term = Str_Spring2026
  /\ enrollments.recs[3].studentId = Str_S1_id
  /\ enrollments.recs[3].courseCode = Str_C1_code
  /\ Len(sres.out.rows) = 1
  /\ sres.out.rows[1].id = Str_S1_id

\* C15: grade_to_points gives A, A-, B+, B, B-, C+, C, C-, D, F the points
\* 4.00, 3.70, 3.30, 3.00, 2.70, 2.30, 2.00, 1.70, 1.00, 0.00, and gives every
\* other symbol ("NA", "Z", the empty string, a lower-case symbol) a negative
\* result, which the result for F is not.
C15_GradePoints ==
  sres.op = "grade_to_points" =>
    /\ sres.key \in ValidGrades => sres.out = PointsOf[sres.key]
    /\ sres.key \notin ValidGrades => sres.out < 0 /\ sres.out # grade_to_points(Str_G_F)
    /\ grade_to_points(Str_G_F) = 0

\* grade_to_points was given "b+"
C15_Witness ==
  /\ sres.op = "grade_to_points"
  /\ sres.key = <<98, 43>>
  /\ sres.out = -100

\* C16: the instructorId of every Course record is empty or is the id of a
\* Faculty record.
C16_InstructorRefs ==
  \A c \in Recs(courses) : c.instructorId = <<>> \/ HasFaculty(c.instructorId)

\* the logged-in user is the instructor of the course with this code
Teaches(code) == \E c \in Recs(courses) : c.code = code /\ c.instructorId = session.refId

\* C17: in a faculty session a grade is written to an Enrollment only if the
\* course of that Enrollment has a record whose instructorId is the user's
\* refId; when the course has no record or another instructor, the roster is
\* not shown and the Enrollment file is unchanged.  No step taken from the
\* faculty or the student menu changes the Student, Faculty, Course or User file.
C17_FacultyScope ==
  [][/\ (mode = "faculty" /\ last'.op = "faculty_grade")
          => (/\ enrollments' # enrollments
                   => (/\ Teaches(last'.key.code)
                       /\ OnlyKeyChanged(EnrollmentKeys(enrollments), enrollments, enrollments', KeyTriple(last'.key)))
              /\ ~Teaches(last'.key.code) => (enrollments' = enrollments /\ last'.rc = "notinstructor"))
     /\ (mode = "faculty" /\ last'.op = "faculty_roster")
          => (/\ enrollments' = enrollments
              /\ ~Teaches(last'.key.code) => (last'.rc = "notinstructor" /\ last'.arg = NoRec)
              /\ Teaches(last'.key.code) => last'.rc = "shown")
     /\ mode \in {"faculty", "student"}
          => <<students', faculty', courses', users'>> = <<students, faculty, courses, users>>]_vars

\* a faculty user was refused the grade entry for a course that the admin had
\* assigned to another instructor
C17_Witness ==
  /\ mode = "faculty"
  /\ session.refId = Str_F1_id
  /\ last.op = "faculty_grade"
  /\ last.rc = "notinstructor"
  /\ last.key.code = Str_C1_code
  /\ \E c \in Recs(courses) : c.code = Str_C1_code /\ c.instructorId = Str_F2_id

====
